---- MODULE Spec2Model ----
(***************************************************************************)
(* The binary log-entry codec of src/python/logentry.py: Property.pack,    *)
(* Property.unpack, LogEntry.pack and LogEntry.unpack, with the parts of   *)
(* Python's struct module and UTF-8 codec they rest on.                    *)
(*                                                                         *)
(* Representation.  A byte is a number in 0..255, a buffer a sequence of   *)
(* bytes, a str a sequence of code points.  A 64-bit or 32-bit quantity is *)
(* kept as its base-256 numeral, most significant digit first, so that no  *)
(* value leaves the range of the checker's integers; a timestamp outside   *)
(* 0..2^64-1 is a numeral of more than 8 digits.  A call returns a record  *)
(* [ok, err, ...]: err names the Python exception the call raised, and the *)
(* value a raised call hands back is the empty sequence.                   *)
(***************************************************************************)
EXTENDS Integers, Sequences, FiniteSets, TLC

VARIABLES
    host,     \* byte order of the machine that holds the buffer (sys.byteorder)
    entry,    \* the LogEntry handed to LogEntry.pack
    packed,   \* what LogEntry.pack returned or raised
    data,     \* the byte buffer
    shape,    \* how data came about: none, packed, truncated, extended, corrupted
    moved,    \* whether the buffer was carried to a machine of the other byte order
    out,      \* what LogEntry.unpack returned or raised
    cursor,   \* the offset Property.unpack was called with
    pout,     \* what Property.unpack returned or raised
    pc,       \* new, packed, unpacked, punpacked, shown
    shown,    \* what LogLevel.to_string returned
    \* generate_fake_dataset (fd_count, fd_x, fd_i: its count, x, i)
    fd_count,      \* the number of sequences asked for
    seq_len,       \* the length of a sequence
    anomaly_rate,  \* in hundredths
    fd_x,          \* the sequences built so far
    y,             \* the labels built so far
    start_index,
    fd_i,
    seq,           \* the sequence being built
    fd_pc          \* idle, outer, inner, returned

fake == <<fd_count, seq_len, anomaly_rate, fd_x, y, start_index, fd_i, seq,
          fd_pc>>

vars == <<host, entry, packed, data, shape, moved, out, cursor, pout, pc, shown,
          fake>>

\* generate_fake_dataset is not running.
FakeIdle ==
    /\ fd_count = 0
    /\ seq_len = 1
    /\ anomaly_rate = 0
    /\ fd_x = <<>>
    /\ y = <<>>
    /\ start_index = 0
    /\ fd_i = 0
    /\ seq = <<>>
    /\ fd_pc = "idle"

----------------------------------------------------------------------------
(* Bounds of the inputs. *)

MaxProps == 2

MaxMsgLen == 1

MaxExtra == 1

----------------------------------------------------------------------------
(* Python's struct module. *)

\* The largest value format 'B' packs.
U8Max == 255

\* struct.calcsize of 'Q', of 'I' and of 'B'.
SizeQ == 8

SizeI == 4

SizeB == 1

Reverse(s) == [i \in 1..Len(s) |-> s[Len(s) + 1 - i]]

\* data[offset : offset + n], offsets counted from 0 as Python does.
Slice(d, offset, n) == SubSeq(d, offset + 1, offset + n)

Raise(e) == [ok |-> FALSE, err |-> e, bytes |-> <<>>]

Bytes(b) == [ok |-> TRUE, err |-> "", bytes |-> b]

\* The byte order of a format's first character: '@' (also the default) and
\* '=' are the machine's, '<' little-endian, '>' and '!' big-endian.
ByteOrderOf(mode, h) ==
    IF mode \in {"@", "="} THEN h
    ELSE IF mode = "<" THEN "little" ELSE "big"

\* The pad bytes struct inserts before an item of the given alignment: only
\* mode '@' aligns.
AlignPad(mode, offset, align) ==
    IF mode = "@" /\ (offset % align) # 0
    THEN [i \in 1..(align - (offset % align)) |-> 0]
    ELSE <<>>

\* (mutant) the value cut to its low byte instead of refused.
PackU8_wrap(n) == Bytes(<<n % 256>>)

\* struct.pack of one 'B' item: "ubyte format requires 0 <= number <= 255".
PackU8(n) ==
    IF n >= 0 /\ n <= U8Max THEN Bytes(<<n>>) ELSE Raise("struct.error")

\* struct.pack of one 'Q' item, t the base-256 numeral of the value.
PackU64(t, order) ==
    IF Len(t) # SizeQ THEN Raise("struct.error")
    ELSE Bytes(IF order = "little" THEN Reverse(t) ELSE t)

\* The 4-digit numeral of n.
U32Digits(n) ==
    <<(n \div 16777216) % 256, (n \div 65536) % 256, (n \div 256) % 256, (n % 256)>>

\* (mutant) format 'H' for 'I': a length of two bytes.
PackU32_short(n, order) ==
    Bytes(IF order = "little" THEN <<n % 256, (n \div 256) % 256>>
          ELSE <<(n \div 256) % 256, n % 256>>)

\* struct.pack of one 'I' item.
PackU32(n, order) ==
    Bytes(IF order = "little" THEN Reverse(U32Digits(n)) ELSE U32Digits(n))

----------------------------------------------------------------------------
(* str.encode('utf-8') and bytes.decode('utf-8'). *)

IsSurrogate(c) == c >= 55296 /\ c <= 57343

EncodeCodePoint(c) ==
    IF c < 128 THEN <<c>>
    ELSE IF c < 2048 THEN <<192 + (c \div 64), 128 + (c % 64)>>
    ELSE IF c < 65536
    THEN <<224 + (c \div 4096), 128 + ((c \div 64) % 64), 128 + (c % 64)>>
    ELSE <<240 + (c \div 262144), 128 + ((c \div 4096) % 64),
           128 + ((c \div 64) % 64), 128 + (c % 64)>>

\* One character of the encoder's loop; a raised encoder stays raised.
EncodeStep(s, st) ==
    IF ~st.r.ok \/ st.i > Len(s) THEN st
    ELSE IF IsSurrogate(s[st.i])
    THEN [i |-> st.i, r |-> Raise("UnicodeEncodeError")]
    ELSE [i |-> st.i + 1,
          r |-> Bytes(st.r.bytes \o EncodeCodePoint(s[st.i]))]

\* n turns of the loop, halved so that the evaluation stays shallow; a raised
\* loop has ended.
RECURSIVE EncodeLoop(_, _, _)
EncodeLoop(s, st, n) ==
    IF n = 0 \/ ~st.r.ok THEN st
    ELSE IF n = 1 THEN EncodeStep(s, st)
    ELSE EncodeLoop(s, EncodeLoop(s, st, n \div 2), n - (n \div 2))

utf8_encode(s) == EncodeLoop(s, [i |-> 1, r |-> Bytes(<<>>)], Len(s)).r

IsCont(b) == b >= 128 /\ b <= 191

\* The length of the well-formed UTF-8 sequence that starts at d[i], 0 when
\* none does (an overlong form, a surrogate, a value above U+10FFFF, a stray
\* or missing continuation byte).
SeqLenAt(d, i) ==
    LET n  == Len(d)
        b0 == d[i]
    IN  IF b0 < 128 THEN 1
        ELSE IF b0 >= 194 /\ b0 <= 223
        THEN IF i + 1 <= n /\ IsCont(d[i + 1]) THEN 2 ELSE 0
        ELSE IF b0 >= 224 /\ b0 <= 239
        THEN IF /\ i + 2 <= n
                /\ IsCont(d[i + 1])
                /\ IsCont(d[i + 2])
                /\ (b0 = 224 => d[i + 1] >= 160)
                /\ (b0 = 237 => d[i + 1] <= 159)
             THEN 3 ELSE 0
        ELSE IF b0 >= 240 /\ b0 <= 244
        THEN IF /\ i + 3 <= n
                /\ IsCont(d[i + 1])
                /\ IsCont(d[i + 2])
                /\ IsCont(d[i + 3])
                /\ (b0 = 240 => d[i + 1] >= 144)
                /\ (b0 = 244 => d[i + 1] <= 143)
             THEN 4 ELSE 0
        ELSE 0

DecodeCodePoint(d, i, k) ==
    IF k = 1 THEN d[i]
    ELSE IF k = 2 THEN (d[i] - 192) * 64 + (d[i + 1] - 128)
    ELSE IF k = 3
    THEN (d[i] - 224) * 4096 + (d[i + 1] - 128) * 64 + (d[i + 2] - 128)
    ELSE (d[i] - 240) * 262144 + (d[i + 1] - 128) * 4096
         + (d[i + 2] - 128) * 64 + (d[i + 3] - 128)

\* (mutant) decode(errors='replace'): U+FFFD for a byte that starts no
\* well-formed sequence.
DecodeStep_replace(d, st) ==
    IF ~st.ok \/ st.i > Len(d) THEN st
    ELSE LET k == SeqLenAt(d, st.i)
         IN  IF k = 0
             THEN [i |-> st.i + 1, ok |-> TRUE, err |-> "",
                   text |-> Append(st.text, 65533)]
             ELSE [i |-> st.i + k, ok |-> TRUE, err |-> "",
                   text |-> Append(st.text, DecodeCodePoint(d, st.i, k))]

\* One character of the decoder's loop.
\* (mutant) errors='ignore': a byte that starts no sequence is skipped.
DecodeStep_ignore(d, st) ==
    IF ~st.ok \/ st.i > Len(d) THEN st
    ELSE LET k == SeqLenAt(d, st.i)
         IN  IF k = 0
             THEN [i |-> st.i + 1, ok |-> TRUE, err |-> "", text |-> st.text]
             ELSE [i |-> st.i + k, ok |-> TRUE, err |-> "",
                   text |-> Append(st.text, DecodeCodePoint(d, st.i, k))]

DecodeStep(d, st) ==
    IF ~st.ok \/ st.i > Len(d) THEN st
    ELSE LET k == SeqLenAt(d, st.i)
         IN  IF k = 0
             THEN [i |-> st.i, ok |-> FALSE, err |-> "UnicodeDecodeError",
                   text |-> <<>>]
             ELSE [i |-> st.i + k, ok |-> TRUE, err |-> "",
                   text |-> Append(st.text, DecodeCodePoint(d, st.i, k))]

RECURSIVE DecodeLoop(_, _, _)
DecodeLoop(d, st, n) ==
    IF n = 0 \/ ~st.ok THEN st
    ELSE IF n = 1 THEN DecodeStep(d, st)
    ELSE DecodeLoop(d, DecodeLoop(d, st, n \div 2), n - (n \div 2))

\* At most Len(d) characters are decoded.
utf8_decode(d) ==
    DecodeLoop(d, [i |-> 1, ok |-> TRUE, err |-> "", text |-> <<>>], Len(d))

----------------------------------------------------------------------------
(* Property and LogEntry. *)

\* The format of Property.pack starts with no mode character: mode '@'.
PropertyFormatMode == "@"

\* (mutant) the format without its mode character: native alignment.
EntryFormatMode_native == "@"

\* The mode character of the format LogEntry.pack builds.
EntryFormatMode == "="

\* (mutant) the reader fixed to network byte order.
UnpackFormatMode_network == "!"

\* The mode character of the formats LogEntry.unpack reads with.
UnpackFormatMode == "="

\* struct.calcsize('=QBB')
HeaderSize == SizeQ + SizeB + SizeB

Property_pack(p) ==
    LET key_bytes   == utf8_encode(p.key)
        value_bytes == utf8_encode(p.value)
    IN  IF ~key_bytes.ok THEN Raise(key_bytes.err)
        ELSE IF ~value_bytes.ok THEN Raise(value_bytes.err)
        ELSE LET kl == PackU8(Len(key_bytes.bytes))
                 kp == AlignPad(PropertyFormatMode, SizeB, 1)
                 vl == PackU8(Len(value_bytes.bytes))
                 vp == AlignPad(PropertyFormatMode,
                                SizeB + Len(key_bytes.bytes) + SizeB, 1)
             IN  IF ~kl.ok THEN Raise(kl.err)
                 ELSE IF ~vl.ok THEN Raise(vl.err)
                 ELSE Bytes(kl.bytes \o kp \o key_bytes.bytes
                            \o vl.bytes \o vp \o value_bytes.bytes)

\* (mutant) each property's bytes put before those already joined.
JoinStep_prepend(props, st) ==
    IF ~st.r.ok \/ st.i > Len(props) THEN st
    ELSE LET r == Property_pack(props[st.i])
         IN  IF ~r.ok THEN [i |-> st.i, r |-> Raise(r.err)]
             ELSE [i |-> st.i + 1, r |-> Bytes(r.bytes \o st.r.bytes)]

\* One property of b''.join(prop.pack() for prop in self.properties).
JoinStep(props, st) ==
    IF ~st.r.ok \/ st.i > Len(props) THEN st
    ELSE LET r == Property_pack(props[st.i])
         IN  IF ~r.ok THEN [i |-> st.i, r |-> Raise(r.err)]
             ELSE [i |-> st.i + 1, r |-> Bytes(st.r.bytes \o r.bytes)]

RECURSIVE JoinLoop(_, _, _)
JoinLoop(props, st, n) ==
    IF n = 0 \/ ~st.r.ok THEN st
    ELSE IF n = 1 THEN JoinStep(props, st)
    ELSE JoinLoop(props, JoinLoop(props, st, n \div 2), n - (n \div 2))

JoinProps(props) ==
    JoinLoop(props, [i |-> 1, r |-> Bytes(<<>>)], Len(props)).r

LogEntry_pack(e, h) ==
    LET props_bytes == JoinProps(e.properties)
        msg_bytes   == utf8_encode(e.message)
        order       == ByteOrderOf(EntryFormatMode, h)
    IN  IF ~props_bytes.ok THEN Raise(props_bytes.err)
        ELSE IF ~msg_bytes.ok THEN Raise(msg_bytes.err)
        ELSE LET ts   == PackU64(e.timestamp, order)
                 lv   == PackU8(e.level)
                 cnt  == PackU8(Len(e.properties))
                 head == ts.bytes \o lv.bytes \o cnt.bytes \o props_bytes.bytes
                 pad  == AlignPad(EntryFormatMode, Len(head), SizeI)
                 ml   == PackU32(Len(msg_bytes.bytes), order)
             IN  IF ~ts.ok THEN Raise(ts.err)
                 ELSE IF ~lv.ok THEN Raise(lv.err)
                 ELSE IF ~cnt.ok THEN Raise(cnt.err)
                 ELSE Bytes(head \o pad \o ml.bytes \o msg_bytes.bytes)

\* What a call that raised hands back: nothing.
Raised(e) == [ok |-> FALSE, err |-> e, value |-> <<>>]

Returned(v) == [ok |-> TRUE, err |-> "", value |-> v]

\* struct.unpack_from of size bytes at offset: "unpack_from requires a buffer
\* of at least ... bytes".
UnpackFrom(d, offset, size) ==
    IF Len(d) - offset < size THEN Raise("struct.error")
    ELSE Bytes(Slice(d, offset, size))

\* The value of a 4-digit numeral below 2^31.
U32Value(g) == g[1] * 16777216 + g[2] * 65536 + g[3] * 256 + g[4]

\* (mutant) the slice data[offset : offset + n], which is short when the
\* buffer is and never raises.
UnpackFromU32_slice(d, offset, g) ==
    IF g[1] >= 128 \/ Len(d) - offset < U32Value(g)
    THEN Bytes(SubSeq(d, offset + 1, Len(d)))
    ELSE Bytes(Slice(d, offset, U32Value(g)))

\* (mutant) the message taken to be the rest of the buffer, data[offset:].
UnpackFromU32_rest(d, offset, g) ==
    IF g[1] >= 128 \/ Len(d) - offset < U32Value(g)
    THEN Raise("struct.error")
    ELSE Bytes(SubSeq(d, offset + 1, Len(d)))

\* struct.unpack_from(f'{n}s', data, offset), n given by its 4-digit numeral:
\* a length of 2^31 or more exceeds every buffer.
UnpackFromU32(d, offset, g) ==
    IF g[1] >= 128 THEN Raise("struct.error")
    ELSE UnpackFrom(d, offset, U32Value(g))

\* (mutant) the last offset += val_len left out.
NewOffset_stale(o3, val_len) == o3

\* offset += val_len: the cursor just after the value bytes.
NewOffset(o3, val_len) == o3 + val_len

Property_unpack(d, offset) ==
    LET kl == UnpackFrom(d, offset, SizeB)
    IN  IF ~kl.ok THEN Raised(kl.err)
        ELSE
        LET key_len == kl.bytes[1]
            o1      == offset + 1
            kb      == UnpackFrom(d, o1, key_len)
        IN  IF ~kb.ok THEN Raised(kb.err)
            ELSE
            LET key == utf8_decode(kb.bytes)
                o2  == o1 + key_len
                vl  == UnpackFrom(d, o2, SizeB)
            IN  IF ~key.ok THEN Raised(key.err)
                ELSE IF ~vl.ok THEN Raised(vl.err)
                ELSE
                LET val_len == vl.bytes[1]
                    o3      == o2 + 1
                    vb      == UnpackFrom(d, o3, val_len)
                IN  IF ~vb.ok THEN Raised(vb.err)
                    ELSE
                    LET value == utf8_decode(vb.bytes)
                    IN  IF ~value.ok THEN Raised(value.err)
                        ELSE Returned(<<[key |-> key.text, value |-> value.text],
                                        NewOffset(o3, val_len)>>)

\* (mutant) properties.insert(0, prop) for properties.append(prop).
UnpackPropsStep_insert(d, st) ==
    IF ~st.ok THEN st
    ELSE LET r == Property_unpack(d, st.value[2])
         IN  IF ~r.ok THEN Raised(r.err)
             ELSE Returned(<<<<r.value[1]>> \o st.value[1], r.value[2]>>)

\* One turn of: for _ in range(props_count):
\*     prop, new_offset = Property.unpack(data, offset)
\*     properties.append(prop); offset = new_offset
UnpackPropsStep(d, st) ==
    IF ~st.ok THEN st
    ELSE LET r == Property_unpack(d, st.value[2])
         IN  IF ~r.ok THEN Raised(r.err)
             ELSE Returned(<<Append(st.value[1], r.value[1]), r.value[2]>>)

RECURSIVE UnpackPropsLoop(_, _, _)
UnpackPropsLoop(d, st, n) ==
    IF n = 0 \/ ~st.ok THEN st
    ELSE IF n = 1 THEN UnpackPropsStep(d, st)
    ELSE UnpackPropsLoop(d, UnpackPropsLoop(d, st, n \div 2), n - (n \div 2))

UnpackProps(d, offset, count) ==
    UnpackPropsLoop(d, Returned(<<<<>>, offset>>), count)

LogEntry_unpack(d, h) ==
    LET order  == ByteOrderOf(UnpackFormatMode, h)
        header == UnpackFrom(d, 0, HeaderSize)
    IN  IF ~header.ok THEN Raised(header.err)
        ELSE
        LET tsb         == SubSeq(header.bytes, 1, SizeQ)
            timestamp   == IF order = "little" THEN Reverse(tsb) ELSE tsb
            level       == header.bytes[SizeQ + 1]
            props_count == header.bytes[SizeQ + 2]
            ps          == UnpackProps(d, HeaderSize, props_count)
        IN  IF ~ps.ok THEN Raised(ps.err)
            ELSE
            LET offset == ps.value[2]
                ml     == UnpackFrom(d, offset, SizeI)
            IN  IF ~ml.ok THEN Raised(ml.err)
                ELSE
                LET msg_len == IF order = "little" THEN Reverse(ml.bytes)
                               ELSE ml.bytes
                    mb      == UnpackFromU32(d, offset + SizeI, msg_len)
                IN  IF ~mb.ok THEN Raised(mb.err)
                    ELSE
                    LET message == utf8_decode(mb.bytes)
                    IN  IF ~message.ok THEN Raised(message.err)
                        ELSE Returned(<<[timestamp  |-> timestamp,
                                         level      |-> level,
                                         properties |-> ps.value[1],
                                         message    |-> message.text]>>)

----------------------------------------------------------------------------
(* The inputs. *)

SeqsUpTo(S, n) == UNION {[1..k -> S] : k \in 0..n}

Repeat(x, n) == [i \in 1..n |-> x]

\* The 8-digit numeral of a number below 2^31.
U64Digits(n) == <<0, 0, 0, 0>> \o U32Digits(n)

\* ("B", "e-acute"), ("A", ""), ("A", "euro 1"): keys out of order, a key
\* twice, an empty value, values of two and of three bytes a character.
SampleProps ==
    { [key |-> <<66>>, value |-> <<233>>],
      [key |-> <<65>>, value |-> <<>>],
      [key |-> <<65>>, value |-> <<8364, 49>>] }

\* "A" and a character of four bytes.
MsgChars == {65, 128512}

SampleHeaders ==
    { [timestamp |-> U64Digits(1700000000), level |-> 1],
      [timestamp |-> <<255, 254, 3, 4, 5, 6, 7, 128>>, level |-> 9] }

SmallEntries ==
    { [timestamp  |-> hd.timestamp,
       level      |-> hd.level,
       properties |-> ps,
       message    |-> m] :
          hd \in SampleHeaders,
          ps \in SeqsUpTo(SampleProps, MaxProps),
          m  \in SeqsUpTo(MsgChars, MaxMsgLen) }

Plain(ps, m) ==
    [timestamp |-> U64Digits(1), level |-> 0, properties |-> ps, message |-> m]

EmptyProp == [key |-> <<>>, value |-> <<>>]

\* Entries at and beyond the limits of the one-byte and eight-byte fields.
LimitEntries ==
    { Plain(Repeat(EmptyProp, U8Max), <<65>>),
      Plain(Repeat(EmptyProp, U8Max + 1), <<65>>),
      Plain(<<[key |-> Repeat(65, U8Max), value |-> <<66>>]>>, <<>>),
      Plain(<<[key |-> Repeat(65, U8Max + 1), value |-> <<66>>]>>, <<>>),
      Plain(<<[key |-> <<66>>, value |-> Repeat(233, 127) \o <<65>>]>>, <<>>),
      Plain(<<[key |-> <<66>>, value |-> Repeat(233, 128)]>>, <<>>),
      [timestamp |-> Repeat(255, SizeQ), level |-> U8Max,
       properties |-> <<>>, message |-> <<65>>],
      [timestamp |-> U64Digits(1), level |-> U8Max + 1,
       properties |-> <<>>, message |-> <<65>>],
      [timestamp |-> <<1>> \o Repeat(0, SizeQ), level |-> 0,
       properties |-> <<>>, message |-> <<65>>],
      Plain(<<>>, <<55296>>),
      Plain(<<[key |-> <<56320>>, value |-> <<>>]>>, <<65>>) }

\* {timestamp=1700000000, level=1, properties=[("host","web-1")],
\* message="ok"}
ScenarioEntry ==
    [timestamp  |-> U64Digits(1700000000),
     level      |-> 1,
     properties |-> <<[key   |-> <<104, 111, 115, 116>>,
                       value |-> <<119, 101, 98, 45, 49>>]>>,
     message    |-> <<111, 107>>]

Entries == SmallEntries \cup LimitEntries \cup {ScenarioEntry}

Hosts == {"little", "big"}

Other(h) == IF h = "little" THEN "big" ELSE "little"

\* The bytes appended to or written into a buffer.
SampleBytes == {0, 128, 255}

----------------------------------------------------------------------------
(* The state machine: an entry is packed on a machine; the buffer may lose  *)
(* its tail, gain bytes, have a byte overwritten or be carried to a machine *)
(* of the other byte order; then it is unpacked.                            *)

None == [ok |-> FALSE, err |-> "", value |-> <<>>]

Init ==
    /\ host \in Hosts
    /\ entry \in Entries
    /\ packed = Raise("")
    /\ data = <<>>
    /\ shape = "none"
    /\ moved = FALSE
    /\ out = None
    /\ cursor = 0
    /\ pout = None
    /\ pc = "new"
    /\ shown = ""
    /\ FakeIdle

Pack ==
    /\ pc = "new"
    /\ packed' = LogEntry_pack(entry, host)
    /\ data' = packed'.bytes
    /\ shape' = IF packed'.ok THEN "packed" ELSE "none"
    /\ pc' = "packed"
    /\ UNCHANGED <<host, entry, moved, out, cursor, pout>>

Truncate(n) ==
    /\ pc = "packed"
    /\ shape = "packed"
    /\ n < Len(data)
    /\ data' = SubSeq(data, 1, n)
    /\ shape' = "truncated"
    /\ UNCHANGED <<host, entry, packed, moved, out, cursor, pout, pc>>

Extend(x) ==
    /\ pc = "packed"
    /\ shape = "packed"
    /\ x # <<>>
    /\ data' = data \o x
    /\ shape' = "extended"
    /\ UNCHANGED <<host, entry, packed, moved, out, cursor, pout, pc>>

Corrupt(i, b) ==
    /\ pc = "packed"
    /\ shape = "packed"
    /\ i \in 1..Len(data)
    /\ data[i] # b
    /\ data' = [data EXCEPT ![i] = b]
    /\ shape' = "corrupted"
    /\ UNCHANGED <<host, entry, packed, moved, out, cursor, pout, pc>>

Send ==
    /\ pc = "packed"
    /\ shape # "none"
    /\ ~moved
    /\ host' = Other(host)
    /\ moved' = TRUE
    /\ UNCHANGED <<entry, packed, data, shape, out, cursor, pout, pc>>

Unpack ==
    /\ pc = "packed"
    /\ shape # "none"
    /\ out' = LogEntry_unpack(data, host)
    /\ pc' = "unpacked"
    /\ UNCHANGED <<host, entry, packed, data, shape, moved, cursor, pout>>

UnpackProperty(o) ==
    /\ pc = "packed"
    /\ shape = "packed"
    /\ ~moved
    /\ cursor' = o
    /\ pout' = Property_unpack(data, o)
    /\ pc' = "punpacked"
    /\ UNCHANGED <<host, entry, packed, data, shape, moved, out>>

Next ==
    \/ Pack /\ UNCHANGED <<shown, fake>>
    \/ \E n \in 0..Len(data) : Truncate(n) /\ UNCHANGED <<shown, fake>>
    \/ \E x \in SeqsUpTo(SampleBytes, MaxExtra) : Extend(x) /\ UNCHANGED <<shown, fake>>
    \/ \E i \in 1..Len(data), b \in SampleBytes :
           Corrupt(i, b) /\ UNCHANGED <<shown, fake>>
    \/ Send /\ UNCHANGED <<shown, fake>>
    \/ Unpack /\ UNCHANGED <<shown, fake>>
    \/ \E o \in 0..Len(data) : UnpackProperty(o) /\ UNCHANGED <<shown, fake>>

Spec == Init /\ [][Next]_vars

----------------------------------------------------------------------------
(* LogLevel, and the machine that displays the level of a decoded entry. *)

DEBUG == 0

INFO == 1

WARNING == 2

ERROR == 3

\* (mutant) the table indexed, [level], instead of .get(level, "Unknown").
LogLevel_to_string_index(level) ==
    IF level = DEBUG THEN "Debug"
    ELSE IF level = INFO THEN "Info"
    ELSE IF level = WARNING THEN "Warning"
    ELSE IF level = ERROR THEN "Error"
    ELSE "KeyError"

LogLevel_to_string(level) ==
    IF level = DEBUG THEN "Debug"
    ELSE IF level = INFO THEN "Info"
    ELSE IF level = WARNING THEN "Warning"
    ELSE IF level = ERROR THEN "Error"
    ELSE "Unknown"

\* An entry of every level a byte holds.
LevelEntries ==
    { [timestamp |-> U64Digits(1), level |-> l,
       properties |-> <<>>, message |-> <<65>>] : l \in 0..U8Max }

InitLevel ==
    /\ host \in Hosts
    /\ entry \in LevelEntries
    /\ packed = Raise("")
    /\ data = <<>>
    /\ shape = "none"
    /\ moved = FALSE
    /\ out = None
    /\ cursor = 0
    /\ pout = None
    /\ pc = "new"
    /\ shown = ""
    /\ FakeIdle

Show ==
    /\ pc = "unpacked"
    /\ out.ok
    /\ shown' = LogLevel_to_string(out.value[1].level)
    /\ pc' = "shown"
    /\ UNCHANGED <<host, entry, packed, data, shape, moved, out, cursor, pout>>
    /\ UNCHANGED fake

NextLevel ==
    \/ Pack /\ UNCHANGED <<shown, fake>>
    \/ Unpack /\ UNCHANGED <<shown, fake>>
    \/ Show

SpecLevel == InitLevel /\ [][NextLevel]_vars

----------------------------------------------------------------------------
(* generate_fake_dataset(count, seq_len, anomaly_rate), one step of its     *)
(* loops at a time.  random.random() and random.randint are choices: a     *)
(* draw in hundredths, below 1, and a token of randint's inclusive range.  *)

MaxCount == 2

MaxSeqLen == 3

Rates == {0, 50, 100}

RandomDraws == {0, 25, 75, 99}

\* random.randint(a, b): both ends included.
RandInt(a, b) == a..b

codec == <<host, entry, packed, data, shape, moved, out, cursor, pout, pc,
           shown>>

InitFake ==
    /\ host = "little"
    /\ entry = ScenarioEntry
    /\ packed = Raise("")
    /\ data = <<>>
    /\ shape = "none"
    /\ moved = FALSE
    /\ out = None
    /\ cursor = 0
    /\ pout = None
    /\ pc = "new"
    /\ shown = ""
    /\ fd_count \in 0..MaxCount
    /\ seq_len \in 1..MaxSeqLen
    /\ anomaly_rate \in Rates
    /\ fd_x = <<>>
    /\ y = <<>>
    /\ start_index = 0
    /\ fd_i = 0
    /\ seq = <<>>
    /\ fd_pc = "outer"

\* for _ in range(count): i = start_index; seq = []
BeginSequence ==
    /\ fd_pc = "outer"
    /\ Len(fd_x) < fd_count
    /\ fd_i' = start_index
    /\ seq' = <<>>
    /\ fd_pc' = "inner"
    /\ UNCHANGED <<fd_count, seq_len, anomaly_rate, fd_x, y, start_index>>
    /\ UNCHANGED codec

\* for _ in range(seq_len): random.random() >= anomaly_rate, the else branch.
AppendIndex(r) ==
    /\ fd_pc = "inner"
    /\ Len(seq) < seq_len
    /\ ~(r < anomaly_rate)
    /\ seq' = Append(seq, fd_i)
    /\ fd_i' = (fd_i + 1) % seq_len
    /\ UNCHANGED <<fd_count, seq_len, anomaly_rate, fd_x, y, start_index, fd_pc>>
    /\ UNCHANGED codec

\* for _ in range(seq_len): random.random() < anomaly_rate.
AppendAnomaly(r, t) ==
    /\ fd_pc = "inner"
    /\ Len(seq) < seq_len
    /\ r < anomaly_rate
    /\ t \in RandInt(0, seq_len)
    /\ seq' = Append(seq, t)
    /\ fd_i' = (fd_i + 1) % seq_len
    /\ UNCHANGED <<fd_count, seq_len, anomaly_rate, fd_x, y, start_index, fd_pc>>
    /\ UNCHANGED codec

\* The inner loop is over: x.append(seq), the label, the next start.
EndSequence ==
    /\ fd_pc = "inner"
    /\ Len(seq) = seq_len
    /\ fd_x' = Append(fd_x, seq)
    /\ y' = Append(y, (fd_i + 1) % seq_len)
    /\ start_index' = (start_index + 1) % seq_len
    /\ fd_pc' = "outer"
    /\ UNCHANGED <<fd_count, seq_len, anomaly_rate, fd_i, seq>>
    /\ UNCHANGED codec

\* return x, y
Return ==
    /\ fd_pc = "outer"
    /\ Len(fd_x) = fd_count
    /\ fd_pc' = "returned"
    /\ UNCHANGED <<fd_count, seq_len, anomaly_rate, fd_x, y, start_index, fd_i,
                   seq>>
    /\ UNCHANGED codec

NextFake ==
    \/ BeginSequence
    \/ \E r \in RandomDraws : AppendIndex(r)
    \/ \E r \in RandomDraws, t \in RandInt(0, seq_len) : AppendAnomaly(r, t)
    \/ EndSequence
    \/ Return

SpecFake == InitFake /\ [][NextFake]_vars

----------------------------------------------------------------------------
(* The vocabulary of the properties, stated without the codec. *)

\* The number of bytes UTF-8 gives a code point.
Utf8Width(c) ==
    IF c < 128 THEN 1 ELSE IF c < 2048 THEN 2 ELSE IF c < 65536 THEN 3 ELSE 4

RECURSIVE WidthSum(_, _, _)
WidthSum(s, lo, hi) ==
    IF lo > hi THEN 0
    ELSE IF lo = hi THEN Utf8Width(s[lo])
    ELSE LET mid == (lo + hi) \div 2
         IN  WidthSum(s, lo, mid) + WidthSum(s, mid + 1, hi)

\* The byte length of a text, as against its length in characters.
ByteLen(s) == WidthSum(s, 1, Len(s))

\* A text that has an encoding: Unicode scalar values only.
IsText(s) == \A i \in 1..Len(s) : s[i] \in 0..1114111 /\ ~IsSurrogate(s[i])

PropSize(q) == 2 + ByteLen(q.key) + ByteLen(q.value)

\* The sum of PropSize over ps[lo..hi].
RECURSIVE PropSizeSum(_, _, _)
PropSizeSum(ps, lo, hi) ==
    IF lo > hi THEN 0
    ELSE IF lo = hi THEN PropSize(ps[lo])
    ELSE LET mid == (lo + hi) \div 2
         IN  PropSizeSum(ps, lo, mid) + PropSizeSum(ps, mid + 1, hi)

\* The offset of property i in an encoded entry (i = Len(ps) + 1: of the
\* message length).
PropOffset(ps, i) == 10 + PropSizeSum(ps, 1, i - 1)

EncodedSize(e) ==
    10 + PropSizeSum(e.properties, 1, Len(e.properties)) + 4 + ByteLen(e.message)

ValidProp(q) ==
    /\ IsText(q.key) /\ ByteLen(q.key) <= 255
    /\ IsText(q.value) /\ ByteLen(q.value) <= 255

\* A valid LogEntry: every field within its budget.
Valid(e) ==
    /\ Len(e.timestamp) = 8
    /\ e.level \in 0..255
    /\ Len(e.properties) <= 255
    /\ \A i \in 1..Len(e.properties) : ValidProp(e.properties[i])
    /\ IsText(e.message)

\* LogEntry.pack has just run on this machine.
JustPacked == pc = "packed" /\ ~moved /\ shape \in {"none", "packed"}

\* LogEntry.unpack has just run on the untouched output of LogEntry.pack, on
\* the machine that packed it.
RoundTripped == pc = "unpacked" /\ shape = "packed" /\ ~moved

----------------------------------------------------------------------------
(* C1 *)

\* C1: entry round trip.  LogEntry.pack succeeds on every valid entry, and
\* LogEntry.unpack of its output returns an entry equal to the original in
\* timestamp, level, property list and message.
C1_RoundTrip ==
    /\ (JustPacked /\ Valid(entry)) => packed.ok
    /\ (RoundTripped /\ Valid(entry)) =>
           /\ out.ok
           /\ out.value = <<entry>>

C1_Witness ==
    /\ RoundTripped
    /\ Valid(entry)
    /\ Len(entry.properties) = 2
    /\ entry.message # <<>>
    /\ entry.level = 9
    /\ out.ok
    /\ out.value[1].timestamp = entry.timestamp
    /\ out.value[1].message = entry.message

----------------------------------------------------------------------------
(* C2 *)

\* C2: byte-exact size.  The output of LogEntry.pack on a valid entry has
\* 10 + sum(2 + byte_len(key) + byte_len(value)) + 4 + byte_len(message)
\* bytes, byte lengths being those of the encoded text.
C2_ByteExactSize ==
    (JustPacked /\ Valid(entry)) =>
        /\ packed.ok
        /\ Len(packed.bytes) = EncodedSize(entry)

C2_Witness ==
    /\ JustPacked
    /\ Valid(entry)
    /\ packed.ok
    /\ Len(entry.properties) = 2
    /\ ByteLen(entry.properties[2].value) > Len(entry.properties[2].value)
    /\ ByteLen(entry.message) = 4
    /\ Len(packed.bytes) = EncodedSize(entry)

----------------------------------------------------------------------------
(* C7 *)

\* C7: wire layout.  The output of LogEntry.pack on a valid entry is, with no
\* padding: 8 bytes of timestamp, the level byte at offset 8, the property
\* count at offset 9, from offset 10 each property in list order as
\* [key_len][key bytes][value_len][value bytes], 4 bytes of message length,
\* the message bytes.
C7_WireLayout ==
    (JustPacked /\ Valid(entry)) =>
        /\ packed.ok
        /\ LET b  == packed.bytes
               ps == entry.properties
               m  == PropOffset(ps, Len(ps) + 1)
               mb == utf8_encode(entry.message).bytes
           IN  /\ Len(b) = m + 4 + Len(mb)
               /\ Slice(b, 0, 8) \in {entry.timestamp, Reverse(entry.timestamp)}
               /\ b[8 + 1] = entry.level
               /\ b[9 + 1] = Len(ps)
               /\ \A i \in 1..Len(ps) :
                      LET o  == PropOffset(ps, i)
                          kb == utf8_encode(ps[i].key).bytes
                          vb == utf8_encode(ps[i].value).bytes
                      IN  /\ b[o + 1] = Len(kb)
                          /\ Slice(b, o + 1, Len(kb)) = kb
                          /\ b[o + 1 + Len(kb) + 1] = Len(vb)
                          /\ Slice(b, o + 2 + Len(kb), Len(vb)) = vb
               /\ Slice(b, m, 4) \in {U32Digits(Len(mb)), Reverse(U32Digits(Len(mb)))}
               /\ Slice(b, m + 4, Len(mb)) = mb

C7_Witness ==
    /\ JustPacked
    /\ Valid(entry)
    /\ packed.ok
    /\ Len(entry.properties) = 2
    /\ entry.properties[1] # entry.properties[2]
    /\ entry.message # <<>>
    /\ packed.bytes[9] = entry.level
    /\ packed.bytes[10] = 2
    /\ packed.bytes[11] = ByteLen(entry.properties[1].key)

----------------------------------------------------------------------------
(* C8 *)

\* C8: order preservation.  The property list that pack then unpack yields
\* has the length of the original and the same (key, value) at every index:
\* nothing is re-sorted, and properties with equal keys are neither merged
\* nor dropped.
C8_OrderPreserved ==
    (RoundTripped /\ Valid(entry)) =>
        /\ out.ok
        /\ LET q == out.value[1].properties
           IN  /\ Len(q) = Len(entry.properties)
               /\ \A i \in 1..Len(entry.properties) :
                      /\ q[i].key = entry.properties[i].key
                      /\ q[i].value = entry.properties[i].value

\* Two properties of one key, the larger value first.
C8_Witness ==
    /\ RoundTripped
    /\ Valid(entry)
    /\ Len(entry.properties) = 2
    /\ entry.properties[1].key = entry.properties[2].key
    /\ entry.properties[1].value # <<>>
    /\ entry.properties[2].value = <<>>
    /\ out.ok
    /\ out.value[1].properties = entry.properties

----------------------------------------------------------------------------
(* C3 *)

\* C3: truncation safety.  LogEntry.unpack of a proper prefix of the output of
\* LogEntry.pack raises the error of a short buffer (struct.error, the
\* decoder's Truncated); it returns no entry and raises nothing else.
C3_TruncationSafety ==
    (pc = "unpacked" /\ shape = "truncated") =>
        /\ ~out.ok
        /\ out.err = "struct.error"
        /\ out.value = <<>>

\* The cut falls inside the four-byte character that ends the message.
C3_Witness ==
    /\ pc = "unpacked"
    /\ shape = "truncated"
    /\ ~moved
    /\ Len(entry.properties) = 2
    /\ ByteLen(entry.message) = 4
    /\ Len(data) = Len(packed.bytes) - 1
    /\ out.err = "struct.error"

----------------------------------------------------------------------------
(* C4 *)

\* Every text of the entry has an encoding (str.encode raises otherwise,
\* before any length is looked at).
AllText(e) ==
    /\ IsText(e.message)
    /\ \A i \in 1..Len(e.properties) :
           IsText(e.properties[i].key) /\ IsText(e.properties[i].value)

TooLongField(e) ==
    \E i \in 1..Len(e.properties) :
        ByteLen(e.properties[i].key) > 255 \/ ByteLen(e.properties[i].value) > 255

TooManyProperties(e) == Len(e.properties) > 255

\* The encoding error a caller can read off the exception.  Python gives one
\* class with one message for every 'B' out of range; it is read here as
\* kindly as the claim allows, as FieldTooLong.
EncodingErrorKind(err) == IF err = "struct.error" THEN "FieldTooLong" ELSE err

----------------------------------------------------------------------------
(* C5 *)

\* The text fields a buffer declares, read off its count and length bytes
\* alone: st.texts lists <<offset, length>> of each field that lies inside the
\* buffer, st.fits is FALSE once a length byte or a declared field runs past
\* the end.
ScanStep(d, st) ==
    IF ~st.fits THEN st
    ELSE IF st.pos + 1 > Len(d) THEN [st EXCEPT !.fits = FALSE]
    ELSE LET n == d[st.pos + 1]
         IN  IF st.pos + 1 + n > Len(d) THEN [st EXCEPT !.fits = FALSE]
             ELSE [pos   |-> st.pos + 1 + n,
                   fits  |-> TRUE,
                   texts |-> Append(st.texts, <<st.pos + 1, n>>)]

RECURSIVE ScanLoop(_, _, _)
ScanLoop(d, st, n) ==
    IF n = 0 \/ ~st.fits THEN st
    ELSE IF n = 1 THEN ScanStep(d, st)
    ELSE ScanLoop(d, ScanLoop(d, st, n \div 2), n - (n \div 2))

Scan(d, h) ==
    IF Len(d) < 10 THEN [pos |-> 0, fits |-> FALSE, texts |-> <<>>]
    ELSE LET st == ScanLoop(d, [pos |-> 10, fits |-> TRUE, texts |-> <<>>],
                            2 * d[10])
         IN  IF ~st.fits THEN st
             ELSE IF st.pos + 4 > Len(d) THEN [st EXCEPT !.fits = FALSE]
             ELSE LET g == IF h = "little"
                           THEN Reverse(SubSeq(d, st.pos + 1, st.pos + 4))
                           ELSE SubSeq(d, st.pos + 1, st.pos + 4)
                  IN  IF g[1] > 0
                      THEN [st EXCEPT !.fits = FALSE]
                      ELSE LET n == g[2] * 65536 + g[3] * 256 + g[4]
                           IN  IF st.pos + 4 + n > Len(d)
                               THEN [st EXCEPT !.fits = FALSE]
                               ELSE [pos   |-> st.pos + 4 + n,
                                     fits  |-> TRUE,
                                     texts |-> Append(st.texts, <<st.pos + 4, n>>)]

\* Well-formed UTF-8: every byte that is no continuation byte starts a
\* well-formed sequence, and every continuation byte lies in one.
WellFormedUtf8(b) ==
    \A i \in 1..Len(b) :
        IF IsCont(b[i])
        THEN \E j \in 1..(i - 1) :
                 i - j <= 3 /\ ~IsCont(b[j]) /\ SeqLenAt(b, j) > i - j
        ELSE SeqLenAt(b, i) > 0

\* What the buffer calls for: "" for an entry, else the error.  A declared
\* field that is not text comes before the field that runs past the end.
Expected(d, h) ==
    LET sc == Scan(d, h)
    IN  IF \E k \in 1..Len(sc.texts) :
               ~WellFormedUtf8(Slice(d, sc.texts[k][1], sc.texts[k][2]))
        THEN "UnicodeDecodeError"
        ELSE IF ~sc.fits THEN "struct.error" ELSE ""

\* C5: all-or-nothing decode.  On every buffer LogEntry.unpack either returns
\* an entry with all four fields populated from bytes of the buffer, or raises
\* struct.error (Truncated) when a fixed-width or declared-length field runs
\* past the end, or UnicodeDecodeError (InvalidText) when declared key, value
\* or message bytes are not text; a raised call returns nothing.
C5_AllOrNothing ==
    pc = "unpacked" =>
        LET want == Expected(data, host)
        IN  /\ out.ok <=> want = ""
            /\ out.ok =>
                   /\ Len(out.value) = 1
                   /\ Valid(out.value[1])
                   /\ EncodedSize(out.value[1]) <= Len(data)
            /\ ~out.ok =>
                   /\ out.value = <<>>
                   /\ out.err \in {"struct.error", "UnicodeDecodeError"}
                   /\ out.err = want

\* A byte of a key overwritten with one that is not text.
C5_Witness ==
    /\ pc = "unpacked"
    /\ shape = "corrupted"
    /\ ~moved
    /\ Len(entry.properties) = 2
    /\ data[12] \in {128, 255}
    /\ ~out.ok
    /\ out.err = "UnicodeDecodeError"
    /\ out.value = <<>>

----------------------------------------------------------------------------
(* C6 *)

----------------------------------------------------------------------------
(* C9 *)

\* The buffer holds the bytes b from offset o on.
HoldsAt(d, o, b) == o + Len(b) <= Len(d) /\ Slice(d, o, Len(b)) = b

\* C9: property decode with cursor.  When the buffer holds Property.pack(q)
\* from the cursor on, whatever lies before and after, Property.unpack returns
\* q and the cursor moved by 2 + byte_len(key) + byte_len(value).
C9_PropertyCursor ==
    pc = "punpacked" =>
        \A q \in SampleProps \cup {EmptyProp}
                 \cup {entry.properties[i] : i \in 1..Len(entry.properties)} :
            (ValidProp(q) /\ HoldsAt(data, cursor, Property_pack(q).bytes)) =>
                pout = Returned(<<q, cursor + 2 + ByteLen(q.key) + ByteLen(q.value)>>)

\* The second property of an entry: a property before it, the message after.
C9_Witness ==
    /\ pc = "punpacked"
    /\ Len(entry.properties) = 2
    /\ Valid(entry)
    /\ cursor = PropOffset(entry.properties, 2)
    /\ cursor > 10
    /\ pout.ok
    /\ pout.value[1] = entry.properties[2]
    /\ pout.value[2] = cursor + PropSize(entry.properties[2])
    /\ pout.value[2] < Len(data)

----------------------------------------------------------------------------
(* C10 *)

\* C10: fixed byte order.  The 8 timestamp bytes and the 4 message-length
\* bytes LogEntry.pack writes are least significant byte first on every
\* machine, and a buffer carried to a machine of the other byte order decodes
\* there to the timestamp and message that were encoded.
C10_FixedByteOrder ==
    /\ (JustPacked /\ Valid(entry)) =>
           /\ packed.ok
           /\ Slice(packed.bytes, 0, 8) = Reverse(entry.timestamp)
           /\ Slice(packed.bytes, PropOffset(entry.properties,
                                             Len(entry.properties) + 1), 4)
                  = Reverse(U32Digits(ByteLen(entry.message)))
    /\ (pc = "unpacked" /\ shape = "packed" /\ moved /\ Valid(entry)) =>
           /\ out.ok
           /\ out.value[1].timestamp = entry.timestamp
           /\ out.value[1].message = entry.message

----------------------------------------------------------------------------
(* C11 *)

\* C11 as claimed: the entry {timestamp=1700000000, level=1,
\* properties=[("host","web-1")], message="ok"} encodes to a 10-byte header,
\* an 8-byte property block and a 6-byte message block, 24 bytes in all, and
\* decoding them gives the entry back.
C11_TwentyFourBytes ==
    /\ (JustPacked /\ entry = ScenarioEntry) =>
           /\ packed.ok
           /\ PropSizeSum(entry.properties, 1, 1) = 8
           /\ Len(packed.bytes) = 24
    /\ (RoundTripped /\ entry = ScenarioEntry) => out = Returned(<<entry>>)

\* C11 as amended: the entry encodes to a 10-byte header, an 11-byte property
\* block (1 + 4 + 1 + 5: "web-1" has five bytes) and a 6-byte message block,
\* 27 bytes in all, and decoding those 27 bytes gives the entry back.
C11_TwentySevenBytes ==
    /\ (JustPacked /\ entry = ScenarioEntry) =>
           /\ packed.ok
           /\ Len(packed.bytes) = 27
           /\ Slice(packed.bytes, 8, 2) = <<1, 1>>
           /\ Slice(packed.bytes, 10, 11)
                  = <<4, 104, 111, 115, 116, 5, 119, 101, 98, 45, 49>>
           /\ Slice(packed.bytes, 21, 4) \in {<<2, 0, 0, 0>>, <<0, 0, 0, 2>>}
           /\ Slice(packed.bytes, 25, 2) = <<111, 107>>
    /\ (RoundTripped /\ entry = ScenarioEntry) =>
           /\ Len(data) = 27
           /\ out = Returned(<<entry>>)

C11_Witness ==
    /\ RoundTripped
    /\ entry = ScenarioEntry
    /\ Len(data) = 27
    /\ out.ok
    /\ out.value[1].properties[1].value = <<119, 101, 98, 45, 49>>

----------------------------------------------------------------------------
(* C12 *)

\* C12: the level is opaque on the wire and classified only on display.
\* LogEntry.unpack succeeds for every level byte 0..255 and returns that byte
\* unchanged, and LogLevel.to_string maps 0, 1, 2, 3 to "Debug", "Info",
\* "Warning", "Error" and every other value to "Unknown".
C12_LevelOpaque ==
    /\ (pc \in {"unpacked", "shown"} /\ shape = "packed" /\ ~moved) =>
           /\ out.ok
           /\ out.value[1].level = entry.level
           /\ out.value[1].level = data[9]
    /\ pc = "shown" =>
           shown = CASE out.value[1].level = 0 -> "Debug"
                     [] out.value[1].level = 1 -> "Info"
                     [] out.value[1].level = 2 -> "Warning"
                     [] out.value[1].level = 3 -> "Error"
                     [] OTHER -> "Unknown"

C12_Witness ==
    /\ pc = "shown"
    /\ entry.level = 9
    /\ data[9] = 9
    /\ out.ok
    /\ out.value[1].level = 9
    /\ shown = "Unknown"

----------------------------------------------------------------------------
(* C13 *)

\* The returned entry packed again on the machine that decoded it.
Reencoded == LogEntry_pack(out.value[1], host)

\* The length of the prefix the decoder consumed.
Consumed == EncodedSize(out.value[1])

\* C13: re-encode law.  Whenever LogEntry.unpack succeeds on a buffer and
\* returns entry e, LogEntry.pack(e) succeeds and equals the prefix of the
\* buffer of length 10 + sum(2 + key_len + value_len) + 4 + msg_len; so two
\* different consumed prefixes never decode to the same entry, and the
\* decoder reads no byte beyond the prefix: the prefix alone, or the prefix
\* followed by another byte, decodes to the same entry.
C13_ReencodeLaw ==
    (pc = "unpacked" /\ out.ok) =>
        /\ Reencoded.ok
        /\ Consumed <= Len(data)
        /\ Len(Reencoded.bytes) = Consumed
        /\ Reencoded.bytes = SubSeq(data, 1, Consumed)
        /\ LogEntry_unpack(SubSeq(data, 1, Consumed), host) = out
        /\ LogEntry_unpack(Append(SubSeq(data, 1, Consumed), 255), host) = out

\* A damaged buffer that still decodes, to another entry than the packed one
\* and from fewer bytes than the buffer holds.
C13_Witness ==
    /\ pc = "unpacked"
    /\ out.ok
    /\ shape = "corrupted"
    /\ out.value[1] # entry
    /\ Consumed < Len(data)
    /\ Reencoded.bytes = SubSeq(data, 1, Consumed)

----------------------------------------------------------------------------
(* C14 *)

\* C14: token range of the fake dataset.  For every count >= 0, seq_len >= 1
\* and anomaly_rate in [0, 1], generate_fake_dataset returns count sequences
\* of exactly seq_len tokens and count labels, and every token of every
\* sequence, anomalies included, and every label lies in 0..seq_len-1, a
\* valid index into a vocabulary of size seq_len.
C14_TokenRange ==
    fd_pc = "returned" =>
        /\ Len(fd_x) = fd_count
        /\ Len(y) = fd_count
        /\ \A k \in 1..Len(fd_x) :
               /\ Len(fd_x[k]) = seq_len
               /\ \A j \in 1..Len(fd_x[k]) : fd_x[k][j] \in 0..(seq_len - 1)
        /\ \A k \in 1..Len(y) : y[k] \in 0..(seq_len - 1)

====
